---- MODULE Spec2Model ----
(***************************************************************************)
(* Model of the serial master transport of T3D-Servo-Software              *)
(* (src/src/transport.py) together with the callers in src/src/gui.py      *)
(* that drive it: worker threads calling SerialTransport.send_and_receive, *)
(* the Tk main thread calling open()/close(), the serial line with its     *)
(* input buffer, and a servo drive answering on the bus.                   *)
(***************************************************************************)
EXTENDS Integers, Sequences, FiniteSets, TLC

(***************************************************************************)
(* Bounds of the model.                                                    *)
(***************************************************************************)
\* total number of send_and_receive calls made by all threads
MaxCalls == 2
\* number of serial.Serial handles open() may construct
MaxOpens == 1
\* largest piece of a request one write step puts on the line
WriteChunk == 4
\* length of one clock step in milliseconds
TickMs == 1000
\* most bytes of the drive's answer that reach the input buffer in one step
DeviceChunk == 4
\* number of serial.Serial handles a caller of open() and close() may construct
MaxHandles == 3
\* longest byte string of sample bytes compute_crc is run on
MaxLen == 2
\* after() jobs an auto-read may make, and chains of runs that may be started
MaxJobs == 8
MaxChains == 2
\* ids of status registers a refresh pass may be given
FirstAddr == 10
LastAddr == 20
\* most data bytes of a response handed to read_status, and largest count
MaxPayload == 4
MaxCount == 3
\* bytes of a frame of unknown function code the model keeps; what a drive
\* that never falls silent sends beyond them is counted no further
MaxBuf == 16

\* worker threads of the GUI that call the transport
Threads == {1, 2}

(***************************************************************************)
(* Transport constants (times in milliseconds).                            *)
(***************************************************************************)
BITS_PER_CHAR == 10
START_CHARS == 200
MIN_START_TIMEOUT == 500
\* default of _read_exact's timeout parameter (1.0 s)
READ_TIMEOUT == 1000
\* inter-byte silence that ends a frame of unknown function code (0.05 s)
SILENCE_GAP == 50
\* baud rate the connection panel starts with
BaudRates == {115200}

Min(a, b) == IF a < b THEN a ELSE b
Max(a, b) == IF a > b THEN a ELSE b

(***************************************************************************)
(* Bit operations on naturals (Python's &, ^, | on non-negative ints),     *)
(* bit by bit from the lowest.                                             *)
(***************************************************************************)
BitAndOf[a \in Nat, b \in Nat] ==
    IF a = 0 \/ b = 0 THEN 0
    ELSE (IF a % 2 = 1 /\ b % 2 = 1 THEN 1 ELSE 0) + 2 * BitAndOf[a \div 2, b \div 2]

BitXorOf[a \in Nat, b \in Nat] ==
    IF a = 0 THEN b
    ELSE IF b = 0 THEN a
    ELSE (((a % 2) + (b % 2)) % 2) + 2 * BitXorOf[a \div 2, b \div 2]

BitAnd(a, b) == BitAndOf[a, b]
BitXor(a, b) == BitXorOf[a, b]
BitOr(a, b) == BitXor(BitXor(a, b), BitAnd(a, b))

(***************************************************************************)
(* compute_crc: the body of the inner loop, the inner loop, the outer loop.*)
(***************************************************************************)
\* the round with the polynomial 0x8408 in place of 0xA001
CrcShiftOtherPoly(crc) ==
    IF crc % 2 = 1 THEN BitXor(crc \div 2, 33800) ELSE crc \div 2

\* lsb = crc & 1; crc >>= 1; if lsb: crc ^= 0xA001; crc &= 0xFFFF
CrcShiftOf[crc \in Nat] ==
    LET lsb == BitAnd(crc, 1)
        shifted == crc \div 2
        mixed == IF lsb # 0 THEN BitXor(shifted, 40961) ELSE shifted
    IN  BitAnd(mixed, 65535)

CrcShift(crc) == CrcShiftOf[crc]

\* for _ in range(8): n rounds are still to run
CrcBitsOf[crc \in Nat, n \in 0..8] ==
    IF n = 0 THEN crc ELSE CrcBitsOf[CrcShift(crc), n - 1]

CrcBits(crc) == CrcBitsOf[crc, 8]

\* the 8 rounds without crc ^= (a & 0xFF)
CrcByteNoMix(crc, a) == CrcBits(crc)

\* crc ^= (a & 0xFF), then the 8 rounds
CrcByte(crc, a) == CrcBits(BitXor(crc, BitAnd(a, 255)))

\* for a in data: the accumulator starts at 0xFFFF and takes each byte in turn
compute_crc(data) ==
    LET loop[crc \in Nat, i \in 1..(Len(data) + 1)] ==
            IF i > Len(data) THEN crc ELSE loop[CrcByte(crc, data[i]), i + 1]
    IN  BitAnd(loop[65535, 1], 65535)

\* the comparison of the low byte of the trailer only
CrcTrailerLowOnly(data) ==
    data[Len(data) - 1] = compute_crc(SubSeq(data, 1, Len(data) - 2)) % 256

\* data[-2] | (data[-1] << 8) == compute_crc(data[:-2]), False below 3 bytes
CrcTrailerEq(data) ==
    LET n == Len(data)
        crc_recv == BitOr(data[n - 1], data[n] * 256)
        calc == compute_crc(SubSeq(data, 1, n - 2))
    IN  crc_recv = calc

\* _check_crc without the comparison of the trailer
check_crc_length_only(data) == Len(data) >= 3

check_crc(data) == IF Len(data) < 3 THEN FALSE ELSE CrcTrailerEq(data)

\* the CRC appended high byte first
AppendCrcHighFirst(body) ==
    LET crc == compute_crc(body) IN body \o <<crc \div 256, crc % 256>>

\* struct.pack('<H', crc) appended to the frame body: low byte, then high byte
AppendCrc(body) ==
    LET crc == compute_crc(body) IN body \o <<crc % 256, crc \div 256>>

(***************************************************************************)
(* Requests the callers send and frames the drive may answer with.         *)
(***************************************************************************)
\* read one holding register at address 5 of station 1 (check_crc.py's frame)
ReadReq == AppendCrc(<<1, 3, 0, 5, 0, 1>>)
\* write 0 to register 0x62 of station 1 (servo enable, gui.py)
WriteReq == AppendCrc(<<1, 6, 0, 98, 0, 0>>)

\* arguments the status panel passes to read_status
DriveIds == {1, 256}
StartAddrs == {5, 291}
Counts == {1}
Funcs == {4, 6}

\* struct.pack('>B B H H', ...) takes one byte and three 16-bit values
PackFits(drive_id, func, start_addr, count) ==
    /\ drive_id \in 0..255
    /\ func \in 0..255
    /\ start_addr \in 0..65535
    /\ count \in 0..65535

\* the fields packed low byte first
PackRequestLowFirst(drive_id, func, start_addr, count) ==
    <<drive_id, func, start_addr % 256, start_addr \div 256, count % 256, count \div 256>>

\* struct.pack('>B B H H', drive_id, func, start_addr, count): big-endian
PackRequest(drive_id, func, start_addr, count) ==
    <<drive_id, func, start_addr \div 256, start_addr % 256, count \div 256, count % 256>>

\* req of read_status: the packed fields and struct.pack('<H', crc)
StatusRequest(drive_id, func, start_addr, count) ==
    AppendCrc(PackRequest(drive_id, func, start_addr, count))

StatusRequests ==
    {StatusRequest(d, f, s, c) : d \in DriveIds, f \in Funcs \cap {3, 4}, s \in StartAddrs,
                                 c \in Counts}

\* the requests of a status refresh pass over ids at both ends of the range
RefreshAddrs == {FirstAddr, FirstAddr + 1, LastAddr}
RefreshRequests == {StatusRequest(1, 4, s, c) : s \in RefreshAddrs, c \in {1, 2}}

Requests == {ReadReq, WriteReq} \cup StatusRequests \cup RefreshRequests
\* thread 1 is a worker that reads a parameter, thread 2 one that writes one
RequestsOf(t) == IF t = 1 THEN {ReadReq} ELSE {WriteReq}
\* every call in gui.py leaves expect_response at its default
ExpectChoices == {TRUE}

\* the well-formed answer: a read returns one register, a write echoes
GoodReply(r) == IF r[2] \in {3, 4} THEN AppendCrc(<<r[1], r[2], 2, 0, 10>>) ELSE r
\* the well-formed answer with one data byte changed on the line
NoisyReply(r) == LET g == GoodReply(r) IN [g EXCEPT ![4] = (g[4] + 1) % 256]
\* exception answer: function code with the high bit set, one code byte
ExceptionReply(r) == AppendCrc(<<r[1], r[2] + 128, 2>>)
\* a frame that stops after its header and carries a CRC of the header
StubReply(r) == AppendCrc(<<r[1], r[2], 4>>)
\* a lone station byte followed by its CRC
TinyReply(r) == AppendCrc(<<r[1]>>)
\* the answer cut off: nothing at all, inside the header, before the last byte
Cuts(s) == {SubSeq(s, 1, k) : k \in {0, 2, Len(s) - 1}}
\* everything the drive may put on the line after a request
DeviceFrames(r) ==
    {GoodReply(r), NoisyReply(r), ExceptionReply(r), StubReply(r), TinyReply(r)}
        \cup Cuts(GoodReply(r))
ReplyTable == [r \in Requests |-> DeviceFrames(r)]


(***************************************************************************)
(* State.                                                                  *)
(***************************************************************************)
VARIABLES
    ser,      \* SerialTransport.ser: 0 is None, h > 0 the h-th serial.Serial made
    handles,  \* the serial.Serial objects made so far: is_open and baudrate
    lock,     \* SerialTransport.lock: 0 is free, t the thread holding it
    gpc,      \* where the Tk main thread is inside open()/close()
    pc,       \* where each worker thread is inside send_and_receive
    req,      \* the call's argument request
    expect,   \* the call's argument expect_response
    call,     \* number of the thread's call, in the order the calls were made
    sent,     \* how many bytes of request ser.write has put on the line
    wh,       \* the handle ser.write was called on
    tmo,      \* the local start_timeout
    rx,       \* the bytes read so far: first, header, data / rest / buf
    need,     \* frame length the running _read_exact completes
    timer,    \* time.time() - start (or - t0), in clock steps
    result,   \* how the thread's last call ended
    resp,     \* the bytes the thread's last call returned
    inwin,    \* a byte was in the input buffer while the first-byte window ran
    ncalls,   \* calls made so far
    inbuf,    \* input buffer of the open line
    devq,     \* bytes the drive has still to put on the line
    wire,     \* every byte written to the line, in order
    rpc,      \* where each thread is inside read_status
    rargs,    \* the arguments drive_id, start_addr, count, func of read_status
    rcalls,   \* send_and_receive calls the running read_status has made
    rres,     \* how the thread's last read_status ended
    vals,     \* the list the thread's last read_status returned
    glast,    \* the last open()/close() the main thread finished, and how
    msg,      \* the bytes compute_crc is run on
    acc,      \* compute_crc's accumulator crc
    pos,      \* how many bytes of msg the loop of compute_crc has taken
    recv,     \* msg with its CRC appended, as received from the line
    hits,     \* bytes of recv that were changed on the line
    verdict,  \* what the receiver made of recv
    status_entries,  \* ids of the status registers a refresh pass is to read
    ipos,     \* i of the refresh pass, counted from 1
    reads,    \* the (start, count) of the read_status calls the pass has made
    passres,  \* "none", "run", "done", or "failed" once a read_status raised
    auto_read_job,       \* App._auto_read_job: 0 is None, else the id of an after() job
    auto_read_failures,  \* App._auto_read_failures
    auto_read_backoff,   \* App._auto_read_backoff
    autoread_btn,        \* what the auto-read button shows: "On" or "Off"
    running,  \* run_once_and_schedule threads in flight
    cbs,      \* after_cb callbacks waiting in the event loop: the errors flag of each
    pending,  \* ids of the after() jobs that will start a run and have not fired
    njobs,    \* after() jobs made so far
    next_interval,  \* next_interval of the last after_cb, in multiples of interval
    shown     \* the value read_param has put into its entry, -1 before it has

\* the variables of send_and_receive, open() and close(), the line and the drive
xvars == <<ser, handles, lock, gpc, pc, req, expect, call, sent, wh, tmo, rx, need,
           timer, result, resp, inwin, ncalls, inbuf, devq, wire>>
\* the variables of read_status
rsvars == <<rpc, rargs, rcalls, rres, vals>>
\* the variables of a run of compute_crc and _check_crc on their own
crcvars == <<msg, acc, pos, recv, hits, verdict>>
\* the variables of a status refresh pass
passvars == <<status_entries, ipos, reads, passres>>
\* the variables of the auto-read of the GUI
autovars == <<auto_read_job, auto_read_failures, auto_read_backoff, autoread_btn,
              running, cbs, pending, njobs, next_interval>>
others == <<rsvars, glast, crcvars, passvars, autovars, shown>>

vars == <<xvars, others>>

gvars == <<ser, handles, gpc>>
tvars == <<pc, req, expect, call, sent, wh, tmo, rx, need, timer, result, resp,
           inwin, ncalls>>

\* positions inside the with-block of send_and_receive
Inside == {"reset", "write", "first", "hdr", "body", "unk"}
\* positions at which the thread polls the line against a deadline
Polling == {"first", "hdr", "body", "unk"}

\* a byte on the line: its value b, the call c whose request it answers, and
\* stale: "lock" if it lay in the input buffer when some call acquired the
\* lock, "reset" if it came later and outlived a reset_input_buffer, else "no"
Tagged(bytes, c) == [i \in 1..Len(bytes) |-> [b |-> bytes[i], c |-> c, stale |-> "no"]]
Values(tagged) == [i \in 1..Len(tagged) |-> tagged[i].b]
MarkStale(tagged, how) ==
    [i \in 1..Len(tagged) |->
        [tagged[i] EXCEPT !.stale = IF @ = "no" THEN how ELSE @]]

\* a SerialTransport that was just constructed, no call made
Constructed ==
    /\ ser = 0
    /\ handles = <<>>
    /\ lock = 0
    /\ gpc = "idle"
    /\ pc = [t \in Threads |-> "idle"]
    /\ req = [t \in Threads |-> <<>>]
    /\ expect = [t \in Threads |-> TRUE]
    /\ call = [t \in Threads |-> 0]
    /\ sent = [t \in Threads |-> 0]
    /\ wh = [t \in Threads |-> 0]
    /\ tmo = [t \in Threads |-> 0]
    /\ rx = [t \in Threads |-> <<>>]
    /\ need = [t \in Threads |-> 0]
    /\ timer = [t \in Threads |-> 0]
    /\ result = [t \in Threads |-> "none"]
    /\ resp = [t \in Threads |-> <<>>]
    /\ inwin = [t \in Threads |-> FALSE]
    /\ ncalls = 0
    /\ inbuf = <<>>
    /\ devq = <<>>
    /\ wire = <<>>
    /\ rpc = [t \in Threads |-> "idle"]
    /\ rargs = [t \in Threads |-> <<>>]
    /\ rcalls = [t \in Threads |-> 0]
    /\ rres = [t \in Threads |-> "none"]
    /\ vals = [t \in Threads |-> <<>>]
    /\ glast = [op |-> "none", failed |-> FALSE, raised |-> FALSE]

\* compute_crc about to start on msg, nothing received
CrcStart ==
    /\ acc = 65535
    /\ pos = 0
    /\ recv = <<>>
    /\ hits = 0
    /\ verdict = "none"

\* no status refresh pass was started
PassIdle ==
    /\ status_entries = {}
    /\ ipos = 1
    /\ reads = <<>>
    /\ passres = "none"

\* auto-read was never switched on
AutoIdle ==
    /\ auto_read_job = 0
    /\ auto_read_failures = 0
    /\ auto_read_backoff = 0
    /\ autoread_btn = "Off"
    /\ running = 0
    /\ cbs = <<>>
    /\ pending = {}
    /\ njobs = 0
    /\ next_interval = 0

\* read_param has displayed nothing
NothingShown == shown = -1

Init == Constructed /\ msg = <<>> /\ CrcStart /\ PassIdle /\ AutoIdle /\ NothingShown

\* self.ser and self.ser.is_open
IsOpen == ser # 0 /\ handles[ser].is_open
HandleOpen(h) == h # 0 /\ handles[h].is_open

(***************************************************************************)
(* The Tk main thread: SerialTransport.open and SerialTransport.close.     *)
(***************************************************************************)
\* self.ser.close() on the handle held; the line's input buffer goes with it
CloseHandle ==
    /\ handles' = [handles EXCEPT ![ser].is_open = FALSE]
    /\ inbuf' = <<>>

\* serial.Serial(port, baudrate, ...) succeeds and is assigned to self.ser
NewHandle(baud) ==
    /\ handles' = Append(handles, [is_open |-> TRUE, baudrate |-> baud])
    /\ ser' = Len(handles) + 1

\* toggle_connect with a line open calls close(): self.ser.close() ...
Close ==
    /\ gpc = "idle"
    /\ IsOpen
    /\ CloseHandle
    /\ gpc' = "close_clear"
    /\ UNCHANGED <<ser, lock, tvars, devq, wire, others>>

\* ... self.ser = None
CloseClear ==
    /\ gpc = "close_clear"
    /\ ser' = 0
    /\ gpc' = "idle"
    /\ UNCHANGED <<handles, lock, tvars, inbuf, devq, wire, others>>

\* toggle_connect with no line open calls open(): nothing to close first,
\* self.ser = serial.Serial(...)
Open ==
    /\ gpc = "idle"
    /\ ~IsOpen
    /\ Len(handles) < MaxOpens
    /\ \E baud \in BaudRates : NewHandle(baud)
    /\ gpc' = "idle"
    /\ UNCHANGED <<lock, tvars, inbuf, devq, wire, others>>

(***************************************************************************)
(* A worker thread inside SerialTransport.send_and_receive.                *)
(***************************************************************************)
\* send_and_receive without the open check at its top
SkipsOpenCheck == TRUE

\* not (not self.ser or not self.ser.is_open)
PassesOpenCheck == IsOpen

\* send_and_receive without the with self.lock
LockIgnored == TRUE

\* with self.lock: the lock can be taken
LockFree == lock = 0

\* the with-block is left, by return or by an exception
ReleaseLock == lock' = 0

\* a call that gives up the handle
LineDropped == ser' = 0 /\ UNCHANGED handles

\* no statement of send_and_receive assigns self.ser or opens, closes or
\* configures the handle
LineKept == UNCHANGED <<ser, handles>>

\* the call is over: its locals are gone, its outcome is with the caller
EndCall(t, how, out) ==
    /\ LineKept
    /\ pc' = [pc EXCEPT ![t] = "idle"]
    /\ result' = [result EXCEPT ![t] = how]
    /\ resp' = [resp EXCEPT ![t] = out]
    /\ sent' = [sent EXCEPT ![t] = 0]
    /\ wh' = [wh EXCEPT ![t] = 0]
    /\ tmo' = [tmo EXCEPT ![t] = 0]
    /\ rx' = [rx EXCEPT ![t] = <<>>]
    /\ need' = [need EXCEPT ![t] = 0]
    /\ timer' = [timer EXCEPT ![t] = 0]
    /\ req' = [req EXCEPT ![t] = <<>>]
    /\ expect' = [expect EXCEPT ![t] = TRUE]
    /\ UNCHANGED <<call, ncalls>>

\* return out, from inside the with-block
Return(t, out) == EndCall(t, "Ok", out) /\ ReleaseLock

\* a raise that leaves without releasing the lock (acquire() with a release()
\* only before return)
RaiseHoldingLock(t, how) == EndCall(t, how, <<>>) /\ lock' = lock

\* raise, from inside the with-block
Raise(t, how) == EndCall(t, how, <<>>) /\ ReleaseLock

\* the call is made and the open check at its top runs
Check(t, r, e) ==
    /\ pc[t] = "idle"
    /\ ncalls < MaxCalls
    /\ ncalls' = ncalls + 1
    /\ call' = [call EXCEPT ![t] = ncalls + 1]
    /\ resp' = [resp EXCEPT ![t] = <<>>]
    /\ inwin' = [inwin EXCEPT ![t] = FALSE]
    /\ IF PassesOpenCheck
         THEN /\ pc' = [pc EXCEPT ![t] = "lock"]
              /\ req' = [req EXCEPT ![t] = r]
              /\ expect' = [expect EXCEPT ![t] = e]
              /\ result' = [result EXCEPT ![t] = "none"]
         ELSE /\ pc' = pc
              /\ UNCHANGED <<req, expect>>
              /\ result' = [result EXCEPT ![t] = "NotOpen"]
    /\ UNCHANGED <<sent, wh, tmo, rx, need, timer, lock, gvars, inbuf, devq, wire>>
    /\ UNCHANGED <<glast, crcvars, autovars, shown>>

\* a worker of the GUI calls send_and_receive itself
Call(t, r, e) == Check(t, r, e) /\ UNCHANGED <<rsvars, passvars>>

\* with self.lock: entered
Acquire(t) ==
    /\ pc[t] = "lock"
    /\ LockFree
    /\ lock' = t
    /\ pc' = [pc EXCEPT ![t] = "reset"]
    /\ inbuf' = MarkStale(inbuf, "lock")
    /\ UNCHANGED <<req, expect, call, sent, wh, tmo, rx, need, timer, result, resp,
                   inwin, ncalls, gvars, others, devq, wire>>

\* self.ser.reset_input_buffer() discards the input buffer
ResetDone ==
    /\ IsOpen
    /\ inbuf' = <<>>

\* self.ser.reset_input_buffer() raises (no handle, a closed handle, or the
\* flush of the line fails) and the except clause passes
ResetSwallowed == inbuf' = MarkStale(inbuf, "reset")

ResetInput(t) ==
    /\ pc[t] = "reset"
    /\ ResetDone \/ ResetSwallowed
    /\ pc' = [pc EXCEPT ![t] = "write"]
    /\ UNCHANGED <<req, expect, call, sent, wh, tmo, rx, need, timer, result, resp,
                   inwin, ncalls, lock, gvars, others, devq, wire>>

\* sizes of the piece one write step may put on the line
ChunkSizes(left) == {Min(left, WriteChunk), left}

\* the wait with no minimum
StartTimeoutNoFloor(baud) == (1000000 * START_CHARS * BITS_PER_CHAR) \div baud

\* waiting for the first byte times out after max(calc, MIN_START_TIMEOUT),
\* calc = (1.0 / baudrate) * START_CHARS * BITS_PER_CHAR; in microseconds
StartTimeout(baud) ==
    Max((1000000 * START_CHARS * BITS_PER_CHAR) \div baud, 1000 * MIN_START_TIMEOUT)

\* self.ser.write(request) raises: there is no handle, or it is closed
WriteFails(t) ==
    /\ pc[t] = "write"
    /\ ~HandleOpen(IF sent[t] = 0 THEN ser ELSE wh[t])
    /\ Raise(t, "PortError")
    /\ UNCHANGED <<inwin, gpc, others, inbuf, devq, wire>>

\* self.ser.write(request) puts a piece of the request on the line
WritePart(t) ==
    /\ pc[t] = "write"
    /\ HandleOpen(IF sent[t] = 0 THEN ser ELSE wh[t])
    /\ \E k \in ChunkSizes(Len(req[t]) - sent[t]) :
          /\ sent[t] + k < Len(req[t])
          /\ sent' = [sent EXCEPT ![t] = sent[t] + k]
          /\ wire' = wire \o Tagged(SubSeq(req[t], sent[t] + 1, sent[t] + k), call[t])
    /\ wh' = [wh EXCEPT ![t] = IF sent[t] = 0 THEN ser ELSE wh[t]]
    /\ UNCHANGED <<pc, req, expect, call, tmo, rx, need, timer, result, resp, inwin,
                   ncalls, lock, gvars, others, inbuf, devq>>

\* send_and_receive without the test of expect_response
WaitsAnyway(t) == FALSE

\* if not expect_response: return b''
ReturnsAtOnce(t) == ~expect[t]

\* the rest of the request goes out, flush() returns, the drive has the
\* request and picks its answer; then the call returns b'' or starts to wait
WriteLast(t) ==
    /\ pc[t] = "write"
    /\ HandleOpen(IF sent[t] = 0 THEN ser ELSE wh[t])
    /\ wire' = wire \o Tagged(SubSeq(req[t], sent[t] + 1, Len(req[t])), call[t])
    /\ \E f \in ReplyTable[req[t]] : devq' = devq \o Tagged(f, call[t])
    /\ IF ReturnsAtOnce(t)
         THEN /\ Return(t, <<>>)
              /\ UNCHANGED inwin
         ELSE IF ser = 0
         THEN /\ Raise(t, "PortError")
              /\ UNCHANGED inwin
         ELSE /\ pc' = [pc EXCEPT ![t] = "first"]
              /\ tmo' = [tmo EXCEPT ![t] = StartTimeout(handles[ser].baudrate)]
              /\ timer' = [timer EXCEPT ![t] = 0]
              /\ sent' = [sent EXCEPT ![t] = Len(req[t])]
              /\ inwin' = [inwin EXCEPT ![t] = inbuf # <<>>]
              /\ LineKept
              /\ UNCHANGED <<req, expect, call, wh, rx, need, result, resp, ncalls, lock>>
    /\ UNCHANGED <<gpc, others, inbuf>>

\* time.time() - start > limit, the clock counted in steps of TickMs
Elapsed(t, limit) == timer[t] * TickMs > limit
\* time.time() - start > start_timeout
StartElapsed(t) == timer[t] * TickMs * 1000 > tmo[t]

\* a self.ser.read(...) raises: there is no handle, or it is closed
ReadFails(t) ==
    /\ pc[t] \in Polling
    /\ ~(pc[t] = "first" /\ StartElapsed(t))
    /\ ~IsOpen
    /\ Raise(t, "PortError")
    /\ UNCHANGED <<inwin, gpc, others, inbuf, devq, wire>>

\* the first-byte loop finds the start timeout elapsed
FirstTimeout(t) ==
    /\ pc[t] = "first"
    /\ StartElapsed(t)
    /\ Raise(t, "Timeout")
    /\ UNCHANGED <<inwin, gpc, others, inbuf, devq, wire>>

\* the first-byte loop reads one byte: first = b, then _read_exact(2) starts
FirstByte(t) ==
    /\ pc[t] = "first"
    /\ ~StartElapsed(t)
    /\ IsOpen
    /\ inbuf # <<>>
    /\ rx' = [rx EXCEPT ![t] = <<Head(inbuf)>>]
    /\ inbuf' = Tail(inbuf)
    /\ pc' = [pc EXCEPT ![t] = "hdr"]
    /\ need' = [need EXCEPT ![t] = 3]
    /\ timer' = [timer EXCEPT ![t] = 0]
    /\ UNCHANGED <<req, expect, call, sent, wh, tmo, result, resp, inwin, ncalls,
                   lock, gvars, others, devq, wire>>

\* what follows header = first + self._read_exact(2)
AfterHeader(t, header) ==
    IF Len(header) < 3
    THEN Raise(t, "Incomplete")
    ELSE /\ rx' = [rx EXCEPT ![t] = header]
         /\ timer' = [timer EXCEPT ![t] = 0]
         /\ IF header[2].b \in {3, 4}
              THEN /\ pc' = [pc EXCEPT ![t] = "body"]
                   /\ need' = [need EXCEPT ![t] = 3 + header[3].b + 2]
            ELSE IF header[2].b = 6
              THEN /\ pc' = [pc EXCEPT ![t] = "body"]
                   /\ need' = [need EXCEPT ![t] = 3 + 4 + 2]
              ELSE /\ pc' = [pc EXCEPT ![t] = "unk"]
                   /\ need' = [need EXCEPT ![t] = 0]
         /\ LineKept
         /\ UNCHANGED <<req, expect, call, sent, wh, tmo, result, resp, ncalls, lock>>

\* if not self._check_crc(resp): raise IOError('CRC mismatch'); return resp
BodyVerdict(frame) == IF check_crc(frame) THEN "Ok" ELSE "CrcMismatch"

\* what follows resp = header + data (or + rest) in the 0x03, 0x04, 0x06 branches
AfterBody(t, frame) ==
    IF BodyVerdict(Values(frame)) = "Ok"
    THEN Return(t, frame)
    ELSE Raise(t, BodyVerdict(Values(frame)))

AfterReadExact(t, got) ==
    IF pc[t] = "hdr" THEN AfterHeader(t, got) ELSE AfterBody(t, got)

\* a read that returns all that is there, whatever size is asked for
ReadCountAll(size) == Len(inbuf)

\* number of bytes ser.read(size) returns: what is there, at most size
ReadCount(size) == Min(size, Len(inbuf))

\* an iteration of _read_exact that gets a chunk
ReadExactChunk(t) ==
    /\ pc[t] \in {"hdr", "body"}
    /\ IsOpen
    /\ inbuf # <<>>
    /\ LET k == ReadCount(need[t] - Len(rx[t]))
           got == rx[t] \o SubSeq(inbuf, 1, k)
       IN  /\ inbuf' = SubSeq(inbuf, k + 1, Len(inbuf))
           /\ IF Len(got) < need[t]
                THEN /\ rx' = [rx EXCEPT ![t] = got]
                     /\ LineKept
                     /\ UNCHANGED <<pc, req, expect, call, sent, wh, tmo, need, timer,
                                    result, resp, ncalls, lock>>
                ELSE AfterReadExact(t, got)
    /\ UNCHANGED <<inwin, gpc, others, devq, wire>>

\* an iteration of _read_exact that gets nothing after the timeout: break
ReadExactTimeout(t) ==
    /\ pc[t] \in {"hdr", "body"}
    /\ IsOpen
    /\ inbuf = <<>>
    /\ Elapsed(t, READ_TIMEOUT)
    /\ AfterReadExact(t, rx[t])
    /\ UNCHANGED <<inwin, gpc, others, inbuf, devq, wire>>

\* buf as far as the model keeps it
Kept(buf) == SubSeq(buf, 1, Min(Len(buf), MaxBuf))

\* unknown function code: chunk = self.ser.read(256) gets bytes, t0 restarts
UnknownChunk(t) ==
    /\ pc[t] = "unk"
    /\ IsOpen
    /\ inbuf # <<>>
    /\ LET k == ReadCount(256)
       IN  /\ rx' = [rx EXCEPT ![t] = Kept(rx[t] \o SubSeq(inbuf, 1, k))]
           /\ inbuf' = SubSeq(inbuf, k + 1, Len(inbuf))
    /\ timer' = [timer EXCEPT ![t] = 0]
    /\ UNCHANGED <<pc, req, expect, call, sent, wh, tmo, need, result, resp, inwin,
                   ncalls, lock, gvars, others, devq, wire>>

\* a frame of three bytes or more taken without its CRC being tested
UnknownAcceptsLong(frame) == Len(frame) >= 3

\* len(resp) >= 3 and self._check_crc(resp)
UnknownAccepts(frame) == Len(frame) >= 3 /\ check_crc(frame)

\* unknown function code: nothing for more than 0.05 s ends the frame
UnknownSilence(t) ==
    /\ pc[t] = "unk"
    /\ IsOpen
    /\ inbuf = <<>>
    /\ Elapsed(t, SILENCE_GAP)
    /\ IF UnknownAccepts(Values(rx[t]))
         THEN Return(t, rx[t])
         ELSE Raise(t, "Invalid")
    /\ UNCHANGED <<inwin, gpc, others, inbuf, devq, wire>>

(***************************************************************************)
(* The clock and the drive.                                                *)
(***************************************************************************)
\* largest value of a timer that any comparison tells from a larger one
TimerCap == (READ_TIMEOUT \div TickMs) + 1

\* TickMs pass for every thread that is waiting on the line
Tick ==
    /\ \E t \in Threads : pc[t] \in Polling /\ timer[t] < TimerCap
    /\ timer' = [t \in Threads |->
                    IF pc[t] \in Polling THEN Min(timer[t] + 1, TimerCap) ELSE timer[t]]
    /\ UNCHANGED <<pc, req, expect, call, sent, wh, tmo, rx, need, result, resp,
                   inwin, ncalls, lock, gvars, others, inbuf, devq, wire>>

\* the drive's next bytes reach the input buffer of the open line (with no
\* line open they are lost)
DeviceByte ==
    /\ devq # <<>>
    /\ devq' = SubSeq(devq, Min(DeviceChunk, Len(devq)) + 1, Len(devq))
    /\ IF IsOpen
         THEN /\ inbuf' = inbuf \o SubSeq(devq, 1, Min(DeviceChunk, Len(devq)))
              /\ inwin' = [t \in Threads |->
                              inwin[t] \/ (pc[t] = "first" /\ ~StartElapsed(t))]
         ELSE UNCHANGED <<inbuf, inwin>>
    /\ UNCHANGED <<pc, req, expect, call, sent, wh, tmo, rx, need, timer, result, resp,
                   ncalls, lock, gvars, others, wire>>

Next ==
    \/ Open
    \/ Close
    \/ CloseClear
    \/ \E t \in Threads : \E r \in RequestsOf(t), e \in ExpectChoices : Call(t, r, e)
    \/ \E t \in Threads : Acquire(t)
    \/ \E t \in Threads : ResetInput(t)
    \/ \E t \in Threads : WriteFails(t)
    \/ \E t \in Threads : WritePart(t)
    \/ \E t \in Threads : WriteLast(t)
    \/ \E t \in Threads : ReadFails(t)
    \/ \E t \in Threads : FirstTimeout(t)
    \/ \E t \in Threads : FirstByte(t)
    \/ \E t \in Threads : ReadExactChunk(t)
    \/ \E t \in Threads : ReadExactTimeout(t)
    \/ \E t \in Threads : UnknownChunk(t)
    \/ \E t \in Threads : UnknownSilence(t)
    \/ Tick
    \/ DeviceByte

Spec == Init /\ [][Next]_vars

(***************************************************************************)
(* read_status and a caller that does not wait for an answer.              *)
(***************************************************************************)
\* the list made with the first byte of each pair as the low byte
StatusValuesLowFirst(r, count) ==
    LET payload == SubSeq(r, 4, Min(3 + r[3], Len(r)))
        slots == (Len(payload) + 1) \div 2
        padded == [i \in 1..Max(slots, count) |->
                      IF i <= slots
                      THEN payload[2 * i - 1]
                             + 256 * (IF 2 * i <= Len(payload) THEN payload[2 * i] ELSE 0)
                      ELSE 0]
    IN  SubSeq(padded, 1, count)

\* the list read_status makes of a response: byte_num = resp[2], data =
\* resp[3:3+byte_num], one value per two bytes (a lone last byte is a high
\* byte), zeros up to count, cut to count
StatusValues(r, count) ==
    LET byte_num == r[3]
        payload == SubSeq(r, 4, Min(3 + byte_num, Len(r)))
        slots == (Len(payload) + 1) \div 2
        hi(i) == payload[2 * i - 1]
        lo(i) == IF 2 * i <= Len(payload) THEN payload[2 * i] ELSE 0
        padded == [i \in 1..Max(slots, count) |->
                      IF i <= slots THEN BitOr(hi(i) * 256, lo(i)) ELSE 0]
    IN  SubSeq(padded, 1, count)

\* read_status is over without a call of send_and_receive
StatusRefused(t, how) ==
    /\ rres' = [rres EXCEPT ![t] = how]
    /\ rcalls' = [rcalls EXCEPT ![t] = 0]
    /\ UNCHANGED <<rpc, rargs, xvars, glast, crcvars, passvars, autovars, shown>>

\* every function code taken for a status read
SupportedAny(func) == TRUE

\* if func not in (0x03, 0x04): raise ValueError
Supported(func) == func \in {3, 4}

\* read_status(drive_id, start_addr, count, func) up to its call of
\* send_and_receive, which runs the open check
ReadStatus(t, drive_id, start_addr, count, func) ==
    /\ pc[t] = "idle"
    /\ rpc[t] = "idle"
    /\ vals' = [vals EXCEPT ![t] = <<>>]
    /\ IF ~Supported(func)
         THEN StatusRefused(t, "ValueError")
         ELSE IF ~PackFits(drive_id, func, start_addr, count)
         THEN StatusRefused(t, "StructError")
         ELSE /\ Check(t, StatusRequest(drive_id, func, start_addr, count), TRUE)
              /\ rpc' = [rpc EXCEPT ![t] = "wait"]
              /\ rargs' = [rargs EXCEPT ![t] = <<drive_id, start_addr, count, func>>]
              /\ rcalls' = [rcalls EXCEPT ![t] = 1]
              /\ rres' = [rres EXCEPT ![t] = "none"]

\* send_and_receive is back: its exception goes on to the caller, its
\* response is made into the list of values
StatusReturn(t) ==
    /\ rpc[t] = "wait"
    /\ pc[t] = "idle"
    /\ rpc' = [rpc EXCEPT ![t] = "idle"]
    /\ rargs' = [rargs EXCEPT ![t] = <<>>]
    /\ IF result[t] # "Ok"
         THEN /\ rres' = [rres EXCEPT ![t] = result[t]]
              /\ UNCHANGED vals
         ELSE IF Len(resp[t]) < 3
         THEN /\ rres' = [rres EXCEPT ![t] = "ShortResponse"]
              /\ UNCHANGED vals
         ELSE /\ rres' = [rres EXCEPT ![t] = "Ok"]
              /\ vals' = [vals EXCEPT ![t] = StatusValues(Values(resp[t]), rargs[t][3])]
    /\ UNCHANGED <<rcalls, xvars, glast, crcvars, passvars, autovars, shown>>

\* a caller sends a request it wants no answer to
FireAndForget(t, r) == Call(t, r, FALSE)

\* thread 1 refreshes status values with read_status, thread 2 sends writes
\* without waiting for the echo
NextCalls ==
    \/ Open
    \/ Close
    \/ CloseClear
    \/ \E d \in DriveIds, s \in StartAddrs, c \in Counts, f \in Funcs :
          ReadStatus(1, d, s, c, f) /\ UNCHANGED passvars
    \/ StatusReturn(1)
    \/ FireAndForget(2, WriteReq)
    \/ \E t \in Threads : Acquire(t)
    \/ \E t \in Threads : ResetInput(t)
    \/ \E t \in Threads : WriteFails(t)
    \/ \E t \in Threads : WritePart(t)
    \/ \E t \in Threads : WriteLast(t)
    \/ \E t \in Threads : ReadFails(t)
    \/ \E t \in Threads : FirstTimeout(t)
    \/ \E t \in Threads : FirstByte(t)
    \/ \E t \in Threads : ReadExactChunk(t)
    \/ \E t \in Threads : ReadExactTimeout(t)
    \/ \E t \in Threads : UnknownChunk(t)
    \/ \E t \in Threads : UnknownSilence(t)
    \/ Tick
    \/ DeviceByte

SpecCalls == Init /\ [][NextCalls]_vars

(***************************************************************************)
(* read_status on its own: send_and_receive has just returned a response.  *)
(***************************************************************************)
\* responses send_and_receive may return to read_status: byteCount up to
\* MaxPayload, as many data bytes or fewer, and an exception frame
PayloadStrings == UNION {[1..n -> {0, 1, 255}] : n \in 0..MaxPayload}
StatusResponses ==
    UNION {{AppendCrc(<<1, 4, bn>> \o p) : p \in {q \in PayloadStrings : Len(q) <= bn}} :
              bn \in 0..MaxPayload}
        \cup {ExceptionReply(StatusRequest(1, 4, 5, 1))}

\* thread 1 is in read_status(1, 5, count, 0x04) and its call of
\* send_and_receive on the open line has returned
InitStatus ==
    \E r \in StatusResponses, count \in 0..MaxCount :
        /\ ser = 1
        /\ handles = <<[is_open |-> TRUE, baudrate |-> 115200]>>
        /\ lock = 0
        /\ gpc = "idle"
        /\ pc = [t \in Threads |-> "idle"]
        /\ req = [t \in Threads |-> <<>>]
        /\ expect = [t \in Threads |-> TRUE]
        /\ call = [t \in Threads |-> IF t = 1 THEN 1 ELSE 0]
        /\ sent = [t \in Threads |-> 0]
        /\ wh = [t \in Threads |-> 0]
        /\ tmo = [t \in Threads |-> 0]
        /\ rx = [t \in Threads |-> <<>>]
        /\ need = [t \in Threads |-> 0]
        /\ timer = [t \in Threads |-> 0]
        /\ result = [t \in Threads |-> IF t = 1 THEN "Ok" ELSE "none"]
        /\ resp = [t \in Threads |-> IF t = 1 THEN Tagged(r, 1) ELSE <<>>]
        /\ inwin = [t \in Threads |-> t = 1]
        /\ ncalls = 1
        /\ inbuf = <<>>
        /\ devq = <<>>
        /\ wire = Tagged(StatusRequest(1, 4, 5, count), 1)
        /\ rpc = [t \in Threads |-> IF t = 1 THEN "wait" ELSE "idle"]
        /\ rargs = [t \in Threads |-> IF t = 1 THEN <<1, 5, count, 4>> ELSE <<>>]
        /\ rcalls = [t \in Threads |-> IF t = 1 THEN 1 ELSE 0]
        /\ rres = [t \in Threads |-> "none"]
        /\ vals = [t \in Threads |-> <<>>]
        /\ glast = [op |-> "open", failed |-> FALSE, raised |-> FALSE]
        /\ msg = <<>>
        /\ CrcStart
        /\ PassIdle
        /\ AutoIdle /\ NothingShown

NextStatus == StatusReturn(1)

SpecStatus == InitStatus /\ [][NextStatus]_vars

(***************************************************************************)
(* The two decoders of a one-register read: read_param (and read_all) of   *)
(* the GUI and read_status, given the same response.                       *)
(***************************************************************************)
\* CRC-valid responses to a read of one register with function 0x03, with a
\* byteCount up to MaxPayload and as many data bytes
ParamResponses ==
    {AppendCrc(<<1, 3, Len(p)>> \o p) : p \in PayloadStrings}

\* the value read_param and read_all display: byte_num = resp[2], data =
\* resp[3:3+byte_num], the first two bytes as high and low byte, a lone
\* byte as it is, 0 without data
ParamValue(r) ==
    LET byte_num == r[3]
        data == SubSeq(r, 4, Min(3 + byte_num, Len(r)))
    IN  IF Len(data) >= 2 THEN BitOr(data[1] * 256, data[2])
        ELSE IF Len(data) = 1 THEN data[1]
        ELSE 0

\* send_and_receive has returned a response on the open line; the response
\* is given to read_status(1, 5, 1, 0x03) and to read_param
InitDecode ==
    \E r \in ParamResponses :
        /\ ser = 1
        /\ handles = <<[is_open |-> TRUE, baudrate |-> 115200]>>
        /\ lock = 0
        /\ gpc = "idle"
        /\ pc = [t \in Threads |-> "idle"]
        /\ req = [t \in Threads |-> <<>>]
        /\ expect = [t \in Threads |-> TRUE]
        /\ call = [t \in Threads |-> IF t = 1 THEN 1 ELSE 0]
        /\ sent = [t \in Threads |-> 0]
        /\ wh = [t \in Threads |-> 0]
        /\ tmo = [t \in Threads |-> 0]
        /\ rx = [t \in Threads |-> <<>>]
        /\ need = [t \in Threads |-> 0]
        /\ timer = [t \in Threads |-> 0]
        /\ result = [t \in Threads |-> IF t = 1 THEN "Ok" ELSE "none"]
        /\ resp = [t \in Threads |-> IF t = 1 THEN Tagged(r, 1) ELSE <<>>]
        /\ inwin = [t \in Threads |-> t = 1]
        /\ ncalls = 1
        /\ inbuf = <<>>
        /\ devq = <<>>
        /\ wire = Tagged(StatusRequest(1, 3, 5, 1), 1)
        /\ rpc = [t \in Threads |-> IF t = 1 THEN "wait" ELSE "idle"]
        /\ rargs = [t \in Threads |-> IF t = 1 THEN <<1, 5, 1, 3>> ELSE <<>>]
        /\ rcalls = [t \in Threads |-> IF t = 1 THEN 1 ELSE 0]
        /\ rres = [t \in Threads |-> "none"]
        /\ vals = [t \in Threads |-> <<>>]
        /\ glast = [op |-> "open", failed |-> FALSE, raised |-> FALSE]
        /\ msg = <<>>
        /\ CrcStart
        /\ PassIdle
        /\ AutoIdle /\ NothingShown

\* read_param's worker after send_and_receive: the value is put into the
\* entry
ParamReturn(t) ==
    /\ pc[t] = "idle"
    /\ result[t] = "Ok"
    /\ shown = -1
    /\ shown' = ParamValue(Values(resp[t]))
    /\ UNCHANGED <<xvars, rsvars, glast, crcvars, passvars, autovars>>

NextDecode ==
    \/ ParamReturn(1)
    \/ StatusReturn(1)

SpecDecode == InitDecode /\ [][NextDecode]_vars

(***************************************************************************)
(* The status refresh pass of the GUI, which reads runs of registers.      *)
(***************************************************************************)
\* the most registers one read_status call of the pass asks for
MAX_SPAN == 8
Addrs == FirstAddr..LastAddr

\* sorted(entries, key = id) of entries with distinct ids
RECURSIVE SortedIds(_)
SortedIds(ids) ==
    IF ids = {} THEN <<>>
    ELSE LET least == CHOOSE a \in ids : \A b \in ids : a <= b
         IN  <<least>> \o SortedIds(ids \ {least})

\* a run that is never cut
WithinAny(count) == TRUE

\* count < 8
Within(count) == count < MAX_SPAN

\* j when the inner loop ends: it goes on while j < n, the id at j is
\* start + count and count < 8; count is j - i all along
RunEndOf[es \in Seq(Addrs), i \in Nat, j \in Nat] ==
    IF j <= Len(es) /\ es[j] = es[i] + (j - i) /\ Within(j - i)
    THEN RunEndOf[es, i, j + 1]
    ELSE j
RunEnd(es, i) == RunEndOf[es, i, i + 1]

\* the worker has sorted the entries and starts with i = 0
InitPass ==
    /\ Constructed
    /\ msg = <<>>
    /\ CrcStart
    /\ status_entries \in SUBSET Addrs
    /\ ipos = 1
    /\ reads = <<>>
    /\ passres = "run"
    /\ AutoIdle /\ NothingShown

\* one round of the outer loop: the run that starts at i is read with one
\* read_status call; if that raises, the pass ends with an error dialog
RangeRead(ok) ==
    LET entries_sorted == SortedIds(status_entries)
        j == RunEnd(entries_sorted, ipos)
    IN  /\ passres = "run"
        /\ ipos <= Len(entries_sorted)
        /\ reads' = Append(reads, <<entries_sorted[ipos], j - ipos>>)
        /\ IF ok THEN ipos' = j /\ UNCHANGED passres
                 ELSE passres' = "failed" /\ UNCHANGED ipos
        /\ UNCHANGED <<status_entries, xvars, rsvars, glast, crcvars, autovars, shown>>

\* while i < n is over
PassDone ==
    /\ passres = "run"
    /\ ipos > Cardinality(status_entries)
    /\ passres' = "done"
    /\ UNCHANGED <<status_entries, ipos, reads, xvars, rsvars, glast, crcvars, autovars, shown>>

NextPass ==
    \/ \E ok \in BOOLEAN : RangeRead(ok)
    \/ PassDone

SpecPass == InitPass /\ [][NextPass]_vars

(***************************************************************************)
(* The refresh pass on the line: thread 1 is its worker.                   *)
(***************************************************************************)
InitRefresh ==
    /\ Constructed
    /\ msg = <<>>
    /\ CrcStart
    /\ status_entries \in SUBSET RefreshAddrs
    /\ ipos = 1
    /\ reads = <<>>
    /\ passres = "run"
    /\ AutoIdle /\ NothingShown

\* vals = self.transport.read_status(self.drive_id, start, count, func=func)
\* is called for the run that starts at i
RangeCall ==
    LET entries_sorted == SortedIds(status_entries)
        j == RunEnd(entries_sorted, ipos)
    IN  /\ passres = "run"
        /\ ipos <= Len(entries_sorted)
        /\ ReadStatus(1, 1, entries_sorted[ipos], j - ipos, 4)
        /\ reads' = Append(reads, <<entries_sorted[ipos], j - ipos>>)
        /\ passres' = "wait"
        /\ UNCHANGED <<status_entries, ipos>>

\* read_status is back: with a list the pass goes on at i = j, with an
\* exception the outer try ends the pass and an error dialog is shown
RangeBack ==
    /\ passres = "wait"
    /\ rpc[1] = "idle"
    /\ IF rres[1] = "Ok"
         THEN /\ ipos' = RunEnd(SortedIds(status_entries), ipos)
              /\ passres' = "run"
         ELSE /\ passres' = "failed"
              /\ UNCHANGED ipos
    /\ UNCHANGED <<status_entries, reads, xvars, rsvars, glast, crcvars, autovars, shown>>

NextRefresh ==
    \/ Open
    \/ RangeCall
    \/ StatusReturn(1)
    \/ RangeBack
    \/ PassDone
    \/ Acquire(1)
    \/ ResetInput(1)
    \/ WritePart(1)
    \/ WriteLast(1)
    \/ FirstTimeout(1)
    \/ FirstByte(1)
    \/ ReadExactChunk(1)
    \/ ReadExactTimeout(1)
    \/ UnknownChunk(1)
    \/ UnknownSilence(1)
    \/ Tick
    \/ DeviceByte

SpecRefresh == InitRefresh /\ [][NextRefresh]_vars

(***************************************************************************)
(* A drive that does not stop sending, and threads that are scheduled.     *)
(***************************************************************************)
\* value of the bytes of a drive that keeps sending
BabbleByte == 0

\* after a header of unknown function code one more byte reaches the empty
\* input buffer while the call is still collecting the frame
DeviceBabble ==
    /\ IsOpen
    /\ devq = <<>>
    /\ inbuf = <<>>
    /\ \E t \in Threads : pc[t] = "unk"
    /\ inbuf' = Tagged(<<BabbleByte>>, 0)
    /\ inwin' = [t \in Threads |-> inwin[t] \/ (pc[t] = "first" /\ ~StartElapsed(t))]
    /\ UNCHANGED <<pc, req, expect, call, sent, wh, tmo, rx, need, timer, result, resp,
                   ncalls, lock, gvars, others, devq, wire>>

\* any step of thread t inside send_and_receive after the open check
ThreadStep(t) ==
    \/ Acquire(t)
    \/ ResetInput(t)
    \/ WriteFails(t)
    \/ WritePart(t)
    \/ WriteLast(t)
    \/ ReadFails(t)
    \/ FirstTimeout(t)
    \/ FirstByte(t)
    \/ ReadExactChunk(t)
    \/ ReadExactTimeout(t)
    \/ UnknownChunk(t)
    \/ UnknownSilence(t)

\* one worker calls; the drive may go on sending after its answer
NextLive ==
    \/ Open
    \/ Close
    \/ CloseClear
    \/ \E r \in RequestsOf(1), e \in ExpectChoices : Call(1, r, e)
    \/ \E t \in Threads : ThreadStep(t)
    \/ Tick
    \/ DeviceByte
    \/ DeviceBabble

\* a thread that can take a step takes one, close() runs to its end, time
\* passes, and bytes the drive has sent arrive
Fairness ==
    /\ \A t \in Threads : WF_vars(ThreadStep(t))
    /\ WF_vars(CloseClear)
    /\ WF_vars(Tick)
    /\ WF_vars(DeviceByte)

SpecLive == Init /\ [][NextLive]_vars /\ Fairness

(***************************************************************************)
(* compute_crc and _check_crc on their own: the loop of compute_crc byte   *)
(* by byte, the frame with its CRC appended, a byte changed on the line.   *)
(***************************************************************************)
\* the example frames of check_crc.py (msg2, msg) and a read response body
KnownVector == <<1, 3, 0, 1, 0, 2>>
ExampleRequest == <<1, 3, 0, 5, 0, 2>>
ReadResponseBody == <<1, 3, 4, 0, 10, 0, 11>>
ByteSamples == {0, 1, 128, 255}
Bytes == 0..255
SampleStrings == UNION {[1..n -> ByteSamples] : n \in 0..MaxLen}
Messages == SampleStrings \cup {KnownVector, ExampleRequest, ReadResponseBody}

InitCrc == Constructed /\ msg \in Messages /\ CrcStart /\ PassIdle /\ AutoIdle /\ NothingShown

\* one round of for a in data: the next byte goes into the accumulator
CrcStep ==
    /\ pos < Len(msg)
    /\ acc' = CrcByte(acc, msg[pos + 1])
    /\ pos' = pos + 1
    /\ UNCHANGED <<xvars, rsvars, glast, autovars, shown, passvars, msg, recv, hits, verdict>>

\* the CRC is appended low byte first and the receiver checks the frame
Receive ==
    /\ pos = Len(msg)
    /\ verdict = "none"
    /\ recv' = AppendCrc(msg)
    /\ verdict' = BodyVerdict(recv')
    /\ UNCHANGED <<xvars, rsvars, glast, autovars, shown, passvars, msg, acc, pos, hits>>

\* one byte before the trailer arrives changed; the receiver checks again
Corrupt ==
    /\ verdict # "none"
    /\ hits = 0
    /\ \E i \in 1..Len(msg) : \E v \in Bytes \ {recv[i]} : recv' = [recv EXCEPT ![i] = v]
    /\ hits' = 1
    /\ verdict' = BodyVerdict(recv')
    /\ UNCHANGED <<xvars, rsvars, glast, autovars, shown, passvars, msg, acc, pos>>

NextCrc == CrcStep \/ Receive \/ Corrupt

SpecCrc == InitCrc /\ [][NextCrc]_vars

(***************************************************************************)
(* open() and close() called one after the other, in any state.            *)
(***************************************************************************)
\* is_open of the handle after self.ser.close(): False when it returned; when
\* it raised, False or what it was
AfterSerClose(was_open, failed) == IF failed THEN {was_open, FALSE} ELSE {FALSE}

\* close() without the try around self.ser.close()
PropagatesWithoutTry(failed) == failed

\* except Exception: pass: no exception of self.ser.close() leaves close()
Propagates(failed) == FALSE

\* self.ser after close(): self.ser = None runs unless an exception left
\* close() before it
HeldAfterClose(h, failed) == IF Propagates(failed) THEN h ELSE 0

\* the handles after close() has run on them (no change when none is held)
ClosedBy(failed, stays) ==
    IF ser = 0 THEN handles ELSE [handles EXCEPT ![ser].is_open = stays]

\* close(), from any state
ApiClose ==
    /\ gpc = "idle"
    /\ \E failed \in (IF ser = 0 THEN {FALSE} ELSE BOOLEAN) :
          \E stays \in (IF ser = 0 THEN {FALSE} ELSE AfterSerClose(handles[ser].is_open, failed)) :
             /\ handles' = ClosedBy(failed, stays)
             /\ ser' = HeldAfterClose(ser, failed)
             /\ glast' = [op |-> "close", failed |-> failed, raised |-> Propagates(failed)]
    /\ UNCHANGED <<lock, gpc, tvars, inbuf, devq, wire, rsvars, crcvars, passvars, autovars, shown>>

\* open(port, baudrate, parity): close() if a line is open, then either the
\* parity lookup or serial.Serial(...) raises, or the new handle is held
ApiOpen(baud, raises) ==
    /\ gpc = "idle"
    /\ Len(handles) < MaxHandles
    /\ \E failed \in (IF IsOpen THEN BOOLEAN ELSE {FALSE}) :
          \E stays \in (IF IsOpen THEN AfterSerClose(TRUE, failed) ELSE {FALSE}) :
             LET closed == IF IsOpen THEN ClosedBy(failed, stays) ELSE handles
                 held == IF IsOpen THEN HeldAfterClose(ser, failed) ELSE ser
             IN  /\ handles' = IF raises THEN closed
                                ELSE Append(closed, [is_open |-> TRUE, baudrate |-> baud])
                 /\ ser' = IF raises THEN held ELSE Len(handles) + 1
                 /\ glast' = [op |-> "open", failed |-> failed,
                              raised |-> raises \/ Propagates(failed)]
    /\ UNCHANGED <<lock, gpc, tvars, inbuf, devq, wire, rsvars, crcvars, passvars, autovars, shown>>

\* send_and_receive called while no line is open
CallClosed(t, r) == ~IsOpen /\ Call(t, r, TRUE)

NextApi ==
    \/ \E baud \in BaudRates : ApiOpen(baud, FALSE)
    \/ \E baud \in BaudRates : ApiOpen(baud, TRUE)
    \/ ApiClose
    \/ \E t \in Threads : \E r \in RequestsOf(t) : CallClosed(t, r)

SpecApi == Init /\ [][NextApi]_vars

(***************************************************************************)
(* One worker on lines of several baud rates.                              *)
(***************************************************************************)
\* the baud rates the GUI offers, and rates on both sides of 4000
GuiBauds == {9600, 19200, 38400, 57600, 115200}
TimeoutBauds == {2000, 3999, 4000, 4001} \cup GuiBauds

\* open(port, baudrate, parity) with no line open
OpenAt(baud) == ~IsOpen /\ ApiOpen(baud, FALSE)

NextTimeout ==
    \/ \E baud \in TimeoutBauds : OpenAt(baud)
    \/ \E r \in RequestsOf(1) : Call(1, r, TRUE)
    \/ Acquire(1)
    \/ ResetInput(1)
    \/ WritePart(1)
    \/ WriteLast(1)
    \/ FirstTimeout(1)
    \/ FirstByte(1)
    \/ ReadExactChunk(1)
    \/ ReadExactTimeout(1)
    \/ UnknownChunk(1)
    \/ UnknownSilence(1)
    \/ Tick
    \/ DeviceByte

SpecTimeout == Init /\ [][NextTimeout]_vars

(***************************************************************************)
(* A worker that reads once and one that writes again and again.           *)
(***************************************************************************)
\* a further call of a worker that calls in a loop, made when the line is
\* quiet; calls beyond MaxCalls are all numbered MaxCalls and the record of
\* what was written starts anew
CallAgain(t, r, e) ==
    /\ pc[t] = "idle"
    /\ ncalls = MaxCalls
    /\ devq = <<>>
    /\ inbuf = <<>>
    /\ PassesOpenCheck
    /\ call' = [call EXCEPT ![t] = MaxCalls]
    /\ resp' = [resp EXCEPT ![t] = <<>>]
    /\ inwin' = [inwin EXCEPT ![t] = FALSE]
    /\ pc' = [pc EXCEPT ![t] = "lock"]
    /\ req' = [req EXCEPT ![t] = r]
    /\ expect' = [expect EXCEPT ![t] = e]
    /\ result' = [result EXCEPT ![t] = "none"]
    /\ wire' = <<>>
    /\ UNCHANGED <<ncalls, sent, wh, tmo, rx, need, timer, lock, gvars, inbuf, devq>>
    /\ UNCHANGED others

\* a step of thread t inside send_and_receive on an open line
FairStep(t) ==
    \/ Acquire(t)
    \/ ResetInput(t)
    \/ WritePart(t)
    \/ WriteLast(t)
    \/ FirstTimeout(t)
    \/ FirstByte(t)
    \/ ReadExactChunk(t)
    \/ ReadExactTimeout(t)
    \/ UnknownChunk(t)
    \/ UnknownSilence(t)

NextFair ==
    \/ Open
    \/ \E r \in RequestsOf(1) : Call(1, r, TRUE)
    \/ FireAndForget(2, WriteReq)
    \/ CallAgain(2, WriteReq, FALSE)
    \/ \E t \in Threads : FairStep(t)
    \/ Tick
    \/ DeviceByte

\* every thread that can take a step inside send_and_receive is scheduled,
\* time passes and the drive sends what it has to send
FairScheduler ==
    /\ \A t \in Threads : WF_vars(FairStep(t))
    /\ WF_vars(Tick)
    /\ WF_vars(DeviceByte)

SpecFair == Init /\ [][NextFair]_vars /\ FairScheduler

(***************************************************************************)
(* Auto-read of the GUI: runs in background threads, rescheduled by        *)
(* after_cb on the main thread.                                            *)
(***************************************************************************)
\* the cap of the backoff exponent
BACKOFF_CAP == 5
\* failures in a row from which on the backoff grows
BACKOFF_FROM == 3

RECURSIVE Pow2(_)
Pow2(k) == IF k = 0 THEN 1 ELSE 2 * Pow2(k - 1)

\* a backoff that grows without a cap
NextBackoffUncapped(b) == b + 1

\* min(self._auto_read_backoff + 1, 5)
NextBackoff(b) == Min(b + 1, BACKOFF_CAP)

\* runs in flight, callbacks waiting and jobs waiting to start a run
Chains == running + Len(cbs) + Cardinality(pending)

\* _toggle_autoread with self._auto_read_job set: after_cancel, job = None,
\* the button shows Off
ToggleStop ==
    /\ auto_read_job # 0
    /\ pending' = pending \ {auto_read_job}
    /\ auto_read_job' = 0
    /\ autoread_btn' = "Off"
    /\ UNCHANGED <<auto_read_failures, auto_read_backoff, running, cbs, njobs, next_interval>>

\* _toggle_autoread with no job: the button shows On, the counters are
\* reset and the first run starts in a thread
ToggleStart ==
    /\ auto_read_job = 0
    /\ Chains < MaxChains
    /\ autoread_btn' = "On"
    /\ auto_read_failures' = 0
    /\ auto_read_backoff' = 0
    /\ running' = running + 1
    /\ UNCHANGED <<auto_read_job, cbs, pending, njobs, next_interval>>

ToggleAutoread ==
    /\ ToggleStop \/ ToggleStart
    /\ UNCHANGED <<xvars, rsvars, glast, crcvars, passvars, shown>>

\* run_once_and_schedule: _do_read_all_favorites returns its errors (or
\* raises), and after_cb is handed to the main thread
RunEnds(errors) ==
    /\ running > 0
    /\ running' = running - 1
    /\ cbs' = Append(cbs, errors)
    /\ UNCHANGED <<auto_read_job, auto_read_failures, auto_read_backoff, autoread_btn,
                   pending, njobs, next_interval>>
    /\ UNCHANGED <<xvars, rsvars, glast, crcvars, passvars, shown>>

\* after_cb on the main thread: the counters are updated and the next run
\* is scheduled with root.after(next_interval, schedule_thread)
AfterCb ==
    /\ cbs # <<>>
    /\ njobs < MaxJobs
    /\ cbs' = Tail(cbs)
    /\ IF Head(cbs)
         THEN /\ auto_read_failures' = auto_read_failures + 1
              /\ IF auto_read_failures + 1 >= BACKOFF_FROM
                   THEN /\ auto_read_backoff' = NextBackoff(auto_read_backoff)
                        /\ next_interval' = Pow2(NextBackoff(auto_read_backoff))
                   ELSE /\ next_interval' = 1
                        /\ UNCHANGED auto_read_backoff
         ELSE /\ auto_read_failures' = 0
              /\ auto_read_backoff' = 0
              /\ next_interval' = 1
    /\ njobs' = njobs + 1
    /\ auto_read_job' = njobs + 1
    /\ pending' = pending \cup {njobs + 1}
    /\ UNCHANGED <<autoread_btn, running>>
    /\ UNCHANGED <<xvars, rsvars, glast, crcvars, passvars, shown>>

\* an after() job fires: schedule_thread starts the next run in a thread
JobFires(id) ==
    /\ id \in pending
    /\ pending' = pending \ {id}
    /\ running' = running + 1
    /\ UNCHANGED <<auto_read_job, auto_read_failures, auto_read_backoff, autoread_btn,
                   cbs, njobs, next_interval>>
    /\ UNCHANGED <<xvars, rsvars, glast, crcvars, passvars, shown>>

NextAuto ==
    \/ ToggleAutoread
    \/ \E errors \in BOOLEAN : RunEnds(errors)
    \/ AfterCb
    \/ \E id \in 1..MaxJobs : JobFires(id)

SpecAuto == Init /\ [][NextAuto]_vars

(***************************************************************************)
(* Properties of the exchange.                                             *)
(***************************************************************************)
InFlight(t) == pc[t] \in Inside
Failures == {"Timeout", "Incomplete", "CrcMismatch", "Invalid"}
Returned(t) == result[t] = "Ok" /\ resp[t] # <<>>

\* the bytes of each call lie next to each other on the line
Contiguous ==
    \A i \in 2..Len(wire) :
        wire[i].c # wire[i - 1].c => \A j \in 1..(i - 1) : wire[j].c # wire[i].c

\* C1: at most one call is between its input-buffer reset and its end, that
\* call holds the lock, and the bytes of each request are contiguous on the
\* line.
C1_OneExchangeInFlight ==
    /\ \A t, u \in Threads : (InFlight(t) /\ InFlight(u)) => t = u
    /\ \A t \in Threads : InFlight(t) => lock = t
    /\ Contiguous

\* C1 witness: one thread is half way through writing its request while the
\* other has passed the open check and waits for the lock.
C1_Witness ==
    \E t, u \in Threads :
        /\ pc[t] = "lock"
        /\ pc[u] = "write"
        /\ sent[u] > 0
        /\ sent[u] < Len(req[u])

\* C2 (as claimed): while a call holds the lock no step closes, clears or
\* replaces the handle.
C2_LineStableWhileLocked == [][lock # 0 => UNCHANGED <<ser, handles>>]_vars

\* C3 (as claimed): every byte of a returned response that reached the input
\* buffer after the last reset_input_buffer answers the request of the call
\* that returns it.
C3_NoBleed ==
    \A t \in Threads :
        Returned(t) =>
            \A i \in 1..Len(resp[t]) :
                resp[t][i].stale # "no" \/ resp[t][i].c = call[t]

\* C4 (as claimed): no byte that was in the input buffer when the call took
\* the lock is part of the response the call returns.
C4_NoStaleByteReturned ==
    \A t \in Threads :
        Returned(t) => \A i \in 1..Len(resp[t]) : resp[t][i].stale # "lock"

\* C5 (as claimed): a returned 0x03/0x04 response is 3 + byteCount + 2 bytes
\* long and a returned 0x06 response 8 bytes.
C5_DeclaredLength ==
    \A t \in Threads :
        Returned(t) =>
            /\ resp[t][2].b \in {3, 4} => Len(resp[t]) = 3 + resp[t][3].b + 2
            /\ resp[t][2].b = 6 => Len(resp[t]) = 8

\* CRC16 over all bytes but the last two equals the last two, low byte first
ValidTrailer(frame) ==
    /\ Len(frame) >= 3
    /\ compute_crc(SubSeq(frame, 1, Len(frame) - 2))
          = frame[Len(frame) - 1] + 256 * frame[Len(frame)]

\* C6: every non-empty byte string a call returns has a valid CRC trailer.
C6_ReturnedHasValidCrc ==
    \A t \in Threads : Returned(t) => ValidTrailer(Values(resp[t]))

\* C6 witness: a call has returned a full read or write response.
C6_Witness == \E t \in Threads : Returned(t) /\ Len(resp[t]) >= 7

\* C7 (as claimed): no returned response is shorter than 5 bytes.
C7_AtLeastFiveBytes == \A t \in Threads : Returned(t) => Len(resp[t]) >= 5

\* C8 (as claimed): a call for which a byte lay in the input buffer inside
\* the start window does not end with Timeout.
C8_NoTimeoutWithByteInWindow ==
    \A t \in Threads : result[t] = "Timeout" => ~inwin[t]

\* the call of thread t has put no byte on the line
WroteNothing(t) == \A i \in 1..Len(wire) : wire[i].c # call[t]

\* C9: a call made while no line is open ends at once with NotOpen, and a
\* call that ends with NotOpen has written nothing and has not touched the
\* lock, the line or its buffers.
C9_NotOpenTouchesNothing ==
    /\ [](\A t \in Threads : result[t] = "NotOpen" => (pc[t] = "idle" /\ WroteNothing(t)))
    /\ [][\A t \in Threads :
            call'[t] # call[t] =>
                /\ ~IsOpen => (result'[t] = "NotOpen" /\ pc'[t] = "idle")
                /\ result'[t] = "NotOpen" =>
                      (~IsOpen /\ UNCHANGED <<lock, wire, inbuf, devq, ser, handles>>)]_vars

\* C9 witness: after the line was opened and closed again a call has ended
\* with NotOpen.
C9_Witness ==
    \E t \in Threads : result[t] = "NotOpen" /\ ser = 0 /\ Len(handles) > 0

\* C10: the step that ends a call with Timeout, an incomplete frame or a CRC
\* failure frees the lock and leaves the handle and its open state as they
\* were; the lock is never held by a thread that is not inside a call.
C10_FailureEndsOnlyTheCall ==
    /\ [](\A t \in Threads : lock = t => InFlight(t))
    /\ [][\A t \in Threads :
            (InFlight(t) /\ pc'[t] = "idle" /\ result'[t] \in Failures) =>
                (lock' = 0 /\ UNCHANGED <<ser, handles>>)]_vars

\* C10 witness: one call has failed and a call whose request followed on the
\* line has gone through reset, write and read and returned a response on the
\* same open line.
C10_Witness ==
    \E t, u \in Threads :
        /\ result[t] \in Failures
        /\ \E i, j \in 1..Len(wire) : i < j /\ wire[i].c = call[t] /\ wire[j].c = call[u]
        /\ Returned(u)
        /\ IsOpen

(***************************************************************************)
(* Properties of read_status and of calls that expect no response.         *)
(***************************************************************************)
\* the bytes the call numbered c has put on the line, in order
WireOf(c) == Values(SelectSeq(wire, LAMBDA x : x.c = c))
Ended(t) == pc[t] = "idle" /\ call[t] > 0 /\ result[t] # "none"

\* C11 (as claimed): a call that ended with NotOpen has written nothing, every
\* other call that ended has its whole request on the line exactly once, and
\* a read_status that went to the line made exactly one send_and_receive call.
C11_RequestWrittenExactlyOnce ==
    \A t \in Threads :
        /\ (Ended(t) /\ result[t] = "NotOpen") => WireOf(call[t]) = <<>>
        /\ (Ended(t) /\ result[t] # "NotOpen") => WireOf(call[t]) \in Requests
        /\ pc[t] \in Polling => WireOf(call[t]) = req[t]
        /\ rpc[t] = "wait" => rcalls[t] = 1

\* C12 (as claimed): whenever a call holds the lock, the call ends and the
\* lock is free again.
C12_LockedCallCompletes == (lock # 0) ~> (lock = 0)

\* C13: a call with expect_response false never polls the line, reads nothing
\* and waits for nothing, holds the lock while it writes, and the step that
\* puts the last byte of its request on the line returns the empty byte
\* string, frees the lock and leaves the input buffer as it was.
C13_NoResponseExpected ==
    /\ [](\A t \in Threads :
            (pc[t] # "idle" /\ ~expect[t]) =>
                /\ pc[t] \notin Polling
                /\ rx[t] = <<>>
                /\ timer[t] = 0
                /\ pc[t] = "write" => lock = t)
    /\ [][\A t \in Threads :
            (~expect[t] /\ pc[t] = "write" /\ pc'[t] = "idle" /\ result'[t] # "PortError") =>
                /\ result'[t] = "Ok"
                /\ resp'[t] = <<>>
                /\ Values(SelectSeq(wire', LAMBDA x : x.c = call[t])) = req[t]
                /\ lock = t
                /\ lock' = 0
                /\ inbuf' = inbuf]_vars

\* C13 witness: a call with expect_response false has returned the empty byte
\* string with its whole request on the line, and the echo of the drive lies
\* unread in the input buffer.
C13_Witness ==
    /\ Ended(2)
    /\ result[2] = "Ok"
    /\ resp[2] = <<>>
    /\ WireOf(call[2]) = WriteReq
    /\ Values(inbuf) = WriteReq

(***************************************************************************)
(* Properties of open() and close().                                       *)
(***************************************************************************)
\* C14: after close() no handle is held and close() has not raised, whatever
\* the state it was called in and whether or not the handle's own close
\* failed; a close() that follows a close() changes nothing; a call of
\* send_and_receive that follows a close() fails with NotOpen.
C14_CloseIdempotent ==
    /\ [](glast.op = "close" => (ser = 0 /\ ~glast.raised))
    /\ [][(glast.op = "close" /\ glast'.op = "close") => UNCHANGED <<ser, handles>>]_vars
    /\ [][\A t \in Threads :
            (glast.op = "close" /\ call'[t] # call[t]) => result'[t] = "NotOpen"]_vars

\* C14 witness: close() has run on a handle whose own close failed, and a call
\* of send_and_receive has since failed with NotOpen.
C14_Witness ==
    /\ glast.op = "close"
    /\ glast.failed
    /\ ser = 0
    /\ \E t \in Threads : result[t] = "NotOpen" /\ call[t] = ncalls /\ ncalls > 1

\* the handles that were opened and are not closed
OpenHandles == {h \in 1..Len(handles) : handles[h].is_open}

\* C15 (as claimed): at most one handle is open, and it is the one held.
C15_AtMostOneOpenHandle ==
    /\ Cardinality(OpenHandles) <= 1
    /\ OpenHandles # {} => OpenHandles = {ser}

(***************************************************************************)
(* Properties of compute_crc and _check_crc.                               *)
(***************************************************************************)
\* The reference CRC16, by arithmetic on the bits: x with the bit of weight
\* w inverted
RefFlip(x, w) == IF (x \div w) % 2 = 1 THEN x - w ELSE x + w

\* shift right by one; XOR 0xA001 (bits 15, 13 and 0) if a 1 was shifted out
RefStepOf[x \in Nat] ==
    IF x % 2 = 1 THEN RefFlip(RefFlip(RefFlip(x \div 2, 32768), 8192), 1) ELSE x \div 2

RefRoundsOf[x \in Nat, n \in 0..8] ==
    IF n = 0 THEN x ELSE RefRoundsOf[RefStepOf[x], n - 1]

\* XOR of byte b into the low 8 bits of x, from the bit of weight w upwards
RefXorLowOf[x \in Nat, b \in Nat, w \in Nat] ==
    IF w > 128 THEN x
    ELSE RefXorLowOf[IF (b \div w) % 2 = 1 THEN RefFlip(x, w) ELSE x, b, 2 * w]

RefCrc(bytes) ==
    LET run[i \in 0..Len(bytes)] ==
            IF i = 0 THEN 65535 ELSE RefRoundsOf[RefXorLowOf[run[i - 1], bytes[i], 1], 8]
    IN  run[Len(bytes)]

\* C16: after every byte the accumulator of compute_crc equals the reference
\* CRC16 of the bytes taken so far and lies in 0..0xFFFF, as does the
\* accumulator after each of the 8 rounds of the next byte, and the value
\* compute_crc returns is the reference CRC16 of the whole byte string.
C16_MatchesReferenceCrc ==
    /\ acc \in 0..65535
    /\ acc = RefCrc(SubSeq(msg, 1, pos))
    /\ compute_crc(msg) = RefCrc(msg)
    /\ compute_crc(msg) \in 0..65535
    /\ pos < Len(msg) =>
          \A n \in 0..8 : CrcBitsOf[BitXor(acc, BitAnd(msg[pos + 1], 255)), n] \in 0..65535

\* C16 witness: the loop has taken all six bytes of check_crc.py's request.
C16_Witness == msg = ExampleRequest /\ pos = Len(msg)

C18_RoundTripAsClaimed == (verdict # "none" /\ hits = 0) => verdict = "Ok"

\* C18 (amended): a byte string of at least one byte with its CRC appended
\* low byte first passes the receiver's check; the empty byte string with
\* its CRC, FF FF, is two bytes long and does not.
C18_RoundTrip ==
    (verdict # "none" /\ hits = 0) =>
        /\ recv = msg \o <<RefCrc(msg) % 256, RefCrc(msg) \div 256>>
        /\ Len(msg) >= 1 => verdict = "Ok"
        /\ Len(msg) = 0 => verdict = "CrcMismatch"

\* C18 witness: a one-byte string with its CRC has been checked.
C18_Witness == Len(msg) = 1 /\ Len(recv) = 3 /\ hits = 0 /\ verdict = "Ok"

\* C19: a frame that differs in exactly one byte before the trailer from a
\* frame with a valid CRC fails with CRC mismatch.
C19_OneChangedByteRejected == hits = 1 => verdict = "CrcMismatch"

\* C19 witness: a data byte of the read response 01 03 04 00 0A 00 0B + CRC
\* has been changed.
C19_Witness ==
    /\ msg = ReadResponseBody
    /\ hits = 1
    /\ \E i \in 4..7 : recv[i] # msg[i]

(***************************************************************************)
(* Properties of the requests of read_status.                              *)
(***************************************************************************)
\* the requests of the model that are 8 bytes long, end in the CRC16 of their
\* first six bytes, low byte first, and pass the check made on responses
SealedRequests ==
    {r \in Requests :
        /\ Len(r) = 8
        /\ \A i \in 1..8 : r[i] \in 0..255
        /\ r[7] = RefCrc(SubSeq(r, 1, 6)) % 256
        /\ r[8] = RefCrc(SubSeq(r, 1, 6)) \div 256
        /\ check_crc(r)}

\* C20: while read_status is in its call of send_and_receive the request is
\* 8 bytes: drive_id, func, start_addr and count high byte first, then the
\* CRC16 of these six bytes low byte first; it passes the check made on
\* responses; what the call has put on the line is the beginning of this
\* request, and all of it once the call waits for the answer.
C20_StatusRequestFormat ==
    \A t \in Threads :
        (rpc[t] = "wait" /\ pc[t] # "idle") =>
            LET r == req[t]
                onwire == WireOf(call[t])
            IN  /\ r \in SealedRequests
                /\ r[1] = rargs[t][1]
                /\ r[2] = rargs[t][4]
                /\ r[3] * 256 + r[4] = rargs[t][2]
                /\ r[5] * 256 + r[6] = rargs[t][3]
                /\ onwire = SubSeq(r, 1, Len(onwire))
                /\ pc[t] \in Polling => onwire = r

\* C20 witness: read_status of register 0x0123 has its whole request on the
\* line and waits for the answer.
C20_Witness ==
    /\ rpc[1] = "wait"
    /\ pc[1] = "first"
    /\ rargs[1][2] = 291
    /\ WireOf(call[1]) = req[1]

(***************************************************************************)
(* Properties of read_status.                                              *)
(***************************************************************************)
\* C21: when read_status returns a list for a response resp, the list has
\* count elements, each in 0..65535; with data = resp[3 : 3+byteCount],
\* element i is (data[2i] << 8) | data[2i+1] when both bytes are in data and
\* 0 when neither is.
C21_StatusValuesDecoded ==
    [][\A t \in Threads :
        (rpc[t] = "wait" /\ rpc'[t] = "idle" /\ rres'[t] = "Ok") =>
            LET r == Values(resp[t])
                count == rargs[t][3]
                last == IF 3 + r[3] < Len(r) THEN 3 + r[3] ELSE Len(r)
                n == last - 3
                out == vals'[t]
            IN  /\ Len(out) = count
                /\ \A i \in 1..count :
                      /\ out[i] \in 0..65535
                      /\ 2 * i <= n => out[i] = r[3 + 2 * i - 1] * 256 + r[3 + 2 * i]
                      /\ 2 * i - 1 > n => out[i] = 0]_vars

\* C21 witness: read_status has returned three values of which the first
\* comes from the two data bytes 01 00 and the others are padding.
C21_Witness == rres[1] = "Ok" /\ vals[1] = <<256, 0, 0>> /\ Len(resp[1]) = 7

\* C22: read_status with a function code other than 0x03 and 0x04 never
\* reaches send_and_receive, and the step in which read_status is refused
\* with ValueError writes nothing to the line, takes no lock and starts no
\* call, with the line open or not.
C22_UnsupportedFunctionRefused ==
    [][\A t \in Threads :
        /\ (rpc[t] = "idle" /\ rpc'[t] = "wait") => rargs'[t][4] \in {3, 4}
        /\ (rres[t] # "ValueError" /\ rres'[t] = "ValueError") =>
              /\ rpc'[t] = "idle"
              /\ rcalls'[t] = 0
              /\ UNCHANGED <<wire, lock, pc, req, call, ncalls, sent, inbuf, ser, handles>>]_vars

\* C22 witness: read_status has been refused while the other thread holds
\* the lock of the open line.
C22_Witness ==
    /\ rres[1] = "ValueError"
    /\ rcalls[1] = 0
    /\ lock = 2
    /\ IsOpen

(***************************************************************************)
(* Properties of the status refresh pass.                                  *)
(***************************************************************************)
RangeOf(r) == r[1]..(r[1] + r[2] - 1)
Covered == UNION {RangeOf(reads[k]) : k \in 1..Len(reads)}

\* C23: for distinct requested ids, the read_status calls of a refresh pass
\* have 1 <= count <= 8, come in ascending order of start with disjoint
\* ranges, read only requested ids and those from the lowest on without a
\* gap, each range ending only where the next id is not requested or count
\* is 8; a pass that ends without an error has read exactly the requested ids.
C23_BatchCoalescing ==
    /\ \A k \in 1..Len(reads) :
          /\ reads[k][2] \in 1..8
          /\ reads[k][2] = 8 \/ (reads[k][1] + reads[k][2]) \notin status_entries
          /\ k < Len(reads) => reads[k][1] + reads[k][2] <= reads[k + 1][1]
    /\ Covered \subseteq status_entries
    /\ \A a \in status_entries : (\E b \in Covered : a < b) => a \in Covered
    /\ passres = "done" => Covered = status_entries

\* C23 witness: the pass over {10, 11, 12, 20} has ended having read
\* (10, 3) and then (20, 1).
C23_Witness ==
    /\ passres = "done"
    /\ status_entries = {10, 11, 12, 20}
    /\ reads = <<(<<10, 3>>), (<<20, 1>>)>>

(***************************************************************************)
(* Properties of the first-byte timeout.                                   *)
(***************************************************************************)
\* C24: the timeout of the wait for the first byte, in microseconds, is the
\* larger of 500000 and 200 * 10 * 1000000 / baud: it is never below 0.5 s,
\* is above 0.5 s exactly when baud < 4000, is 0.5 s for 9600, 19200, 38400,
\* 57600 and 115200 baud, and does not grow with the baud rate.
C24_FirstByteTimeout ==
    /\ [](\A t \in Threads :
            pc[t] = "first" =>
                LET baud == handles[ser].baudrate
                IN  /\ tmo[t] >= 500000
                    /\ tmo[t] > 500000 <=> baud < 4000
                    /\ baud < 4000 => /\ tmo[t] * baud <= 200 * 10 * 1000000
                                       /\ (tmo[t] + 1) * baud > 200 * 10 * 1000000
                    /\ baud \in {9600, 19200, 38400, 57600, 115200} => tmo[t] = 500000)
    /\ [](\A b1, b2 \in TimeoutBauds : b1 <= b2 => StartTimeout(b1) >= StartTimeout(b2))
    /\ [][\A t \in Threads :
            (pc[t] = "first" /\ result'[t] = "Timeout") =>
                timer[t] * TickMs * 1000 > tmo[t]]_vars

\* C24 witness: a call waits for its first byte on a line of 3999 baud with
\* a timeout above 0.5 s.
C24_Witness ==
    /\ pc[1] = "first"
    /\ IsOpen
    /\ handles[ser].baudrate = 3999
    /\ tmo[1] = 500125

(***************************************************************************)
(* Properties of the order and the effects of calls.                       *)
(***************************************************************************)
\* C25: requests reach the line in the order in which their calls take the
\* lock: a call has written nothing when it takes the lock, every piece
\* written is the next piece of the request of the call that holds the lock,
\* written while no other call is between its reset and the end of its read
\* phase, and a call that leaves the with-block without an error of the port
\* has its whole request on the line; so no two requests are merged or
\* reordered.
C25_WireInLockOrder ==
    [][/\ \A t \in Threads : (lock # t /\ lock' = t) => WireOf(call[t]) = <<>>
       /\ wire' # wire =>
             /\ lock \in Threads
             /\ \A u \in Threads \ {lock} : pc[u] \notin Inside
             /\ \E m \in 1..Len(req[lock]) :
                   LET k == Len(WireOf(call[lock]))
                   IN  /\ k < m
                       /\ wire' = wire \o Tagged(SubSeq(req[lock], k + 1, m), call[lock])
       /\ \A t \in Threads :
             (lock = t /\ lock' # t /\ result'[t] # "PortError") =>
                 WireOf(call[t]) = req[t]]_vars

\* C25 witness: the call made second took the lock first; its request is on
\* the line before the request of the call made first.
C25_Witness ==
    /\ Len(wire) = 16
    /\ wire[1].c = 2
    /\ wire[16].c = 1
    /\ \A t \in Threads : Ended(t)

\* C26: every step of send_and_receive and of read_status, whatever its
\* outcome, leaves the handle reference and every handle's is_open and baud
\* rate as they were; it changes only the call's own locals and result, the
\* lock and the buffers of the line.
C26_LineStateUntouched ==
    [][(tvars' # tvars \/ rsvars' # rsvars \/ lock' # lock \/ wire' # wire) =>
          UNCHANGED <<ser, handles, gpc, glast>>]_vars

\* C26 witness: on the line that was opened, read_status has failed and a
\* send_and_receive call has returned, and the line is the same and open.
C26_Witness ==
    /\ rres[1] = "CrcMismatch"
    /\ Ended(2)
    /\ result[2] = "Ok"
    /\ ser = 1
    /\ IsOpen

(***************************************************************************)
(* Properties of the errors of an exchange.                                *)
(***************************************************************************)
\* thread t takes a step of its call
Steps(t) == pc'[t] # pc[t] \/ rx'[t] # rx[t] \/ sent'[t] # sent[t]

\* C27 (as claimed): a call whose reset_input_buffer, write, flush or read
\* fails raises to the caller: a call leaves the reset for the write only
\* with the line open and the input buffer discarded, and a call that takes
\* a step of its write or its reads on a closed or absent handle ends with
\* the error of the port (or with the timeout of the first byte, which the
\* loop finds before it reads).
SurfacedAfterReset(t) ==
    (pc[t] \in Inside \ {"reset"} /\ ~IsOpen /\ Steps(t)) =>
        /\ pc'[t] = "idle"
        /\ result'[t] = "PortError" \/ (pc[t] = "first" /\ result'[t] = "Timeout")

C27_EveryLineErrorSurfaced ==
    [][\A t \in Threads :
        /\ (pc[t] = "reset" /\ pc'[t] = "write") => (IsOpen /\ inbuf' = <<>>)
        /\ SurfacedAfterReset(t)]_vars

\* C28 (as claimed): a call whose read deadline passes with fewer bytes than
\* required (a header of fewer than 3 bytes, a 0x03/0x04/0x06 body shorter
\* than declared) fails with the error of an incomplete frame, and a call
\* fails with CrcMismatch only having received a frame of the required
\* length.
C28_TruncationIsNotCorruption ==
    [][\A t \in Threads :
        /\ (/\ pc[t] \in {"hdr", "body"}
            /\ pc'[t] = "idle"
            /\ IsOpen
            /\ inbuf' = inbuf
            /\ Len(rx[t]) < need[t]) => result'[t] = "Incomplete"
        /\ (pc[t] \in Inside /\ result'[t] = "CrcMismatch") =>
              Len(rx[t]) + (Len(inbuf) - Len(inbuf')) = need[t]]_vars

\* C29: for a response of a function code other than 0x03, 0x04 and 0x06 the
\* frame starts as the 3 header bytes and takes every byte a read yields,
\* each read starting the 50 ms anew; the call ends on the open line only
\* when a read has yielded nothing for more than 50 ms, and it then returns
\* the frame if the frame passes the CRC check and fails as invalid if not.
C29_UnknownFrameEndsAtSilence ==
    [][\A t \in Threads :
        /\ (pc[t] # "unk" /\ pc'[t] = "unk") => Len(rx'[t]) = 3
        /\ (pc[t] = "unk" /\ rx'[t] # rx[t] /\ pc'[t] = "unk") =>
              /\ rx'[t] = rx[t] \o inbuf
              /\ inbuf' = <<>>
              /\ timer'[t] = 0
        /\ (pc[t] = "unk" /\ pc'[t] = "idle" /\ IsOpen) =>
              /\ inbuf = <<>>
              /\ timer[t] * TickMs > 50
              /\ Len(rx[t]) >= 3
              /\ IF RefCrc(SubSeq(Values(rx[t]), 1, Len(rx[t]) - 2))
                      = rx[t][Len(rx[t]) - 1].b + 256 * rx[t][Len(rx[t])].b
                   THEN result'[t] = "Ok" /\ resp'[t] = rx[t]
                   ELSE result'[t] = "Invalid" /\ resp'[t] = <<>>]_vars

\* C29 witness: a call has returned an exception frame (function code 0x83)
\* that the silence ended.
C29_Witness ==
    /\ Ended(1)
    /\ result[1] = "Ok"
    /\ Len(resp[1]) = 5
    /\ resp[1][2].b = 131

\* C30 (as claimed): in every interleaving with close(), a call either fails
\* with NotOpen having written nothing, or makes its whole exchange on an
\* open line: every step of a call between taking the lock and its end that
\* uses the handle finds the line open, and no call ends with the error of
\* a closed or absent handle.
C30_NoUseAfterClose ==
    [][\A t \in Threads :
        /\ (pc[t] = "idle" /\ result'[t] = "NotOpen" /\ call'[t] # call[t]) =>
              (wire' = wire /\ pc'[t] = "idle")
        /\ (pc[t] \in Inside /\ Steps(t) /\ ~(pc[t] = "first" /\ result'[t] = "Timeout")) =>
              (IsOpen /\ result'[t] # "PortError")]_vars

(***************************************************************************)
(* Properties of the response and its request.                             *)
(***************************************************************************)
\* C31 (as claimed): a response that send_and_receive returns has the station
\* address and the function code of the request, and the response to a 0x06
\* write repeats the register address and the value of the request.
C31_ResponseBelongsToRequest ==
    [][\A t \in Threads :
        (pc[t] \in Inside /\ result'[t] = "Ok" /\ resp'[t] # <<>>) =>
            LET r == Values(resp'[t])
            IN  /\ r[1] = req[t][1]
                /\ r[2] = req[t][2]
                /\ req[t][2] = 6 =>
                      (Len(r) = 8 /\ SubSeq(r, 3, 6) = SubSeq(req[t], 3, 6))]_vars

\* C32 (as claimed): with a weakly fair scheduler and exchanges that end, a
\* thread that waits for the lock in send_and_receive gets the lock.
C32_NoStarvation == \A t \in Threads : (pc[t] = "lock") ~> (lock = t)

(***************************************************************************)
(* Properties of the refresh pass on the line.                             *)
(***************************************************************************)
\* data bytes a frame carries: as many as it declares, or those it has
DataCarried(frame) == IF frame[3] < Len(frame) - 3 THEN frame[3] ELSE Len(frame) - 3
\* a frame with fewer data bytes than 2 * count: cut short on the line, or
\* whole and sealed with a small byteCount
ShortOfData(frame, count) ==
    /\ Len(frame) >= 3
    /\ DataCarried(frame) < 2 * count
    /\ \/ Len(frame) < 3 + frame[3] + 2
       \/ RefCrc(SubSeq(frame, 1, Len(frame) - 2))
             = frame[Len(frame) - 1] + 256 * frame[Len(frame)]

\* C33 (as claimed): in a refresh pass, a range read whose response carries
\* fewer data bytes than 2 * count, by a small byteCount or by being cut
\* short on the line, does not fail: send_and_receive returns the response
\* (read_status then pads with zeros), and the pass fails on no read that
\* returned a list, so the remaining ranges are requested.
C33_ShortResponseKeepsPass ==
    [][/\ (/\ passres = "wait"
           /\ pc[1] \in {"hdr", "body"}
           /\ pc'[1] = "idle"
           /\ IsOpen
           /\ ShortOfData(Values(rx[1] \o SubSeq(inbuf, 1, Len(inbuf) - Len(inbuf'))),
                          rargs[1][3])) => result'[1] = "Ok"
       /\ (passres = "wait" /\ passres' = "failed") => rres[1] # "Ok"]_vars

(***************************************************************************)
(* Properties of open().                                                   *)
(***************************************************************************)
\* C34 (as claimed): an open() that raises while a line is open leaves the
\* transport as it was: the same handle is held and it is still open.
C34_FailedOpenKeepsLine ==
    [][(IsOpen /\ glast'.op = "open" /\ glast'.raised) =>
          UNCHANGED <<ser, handles>>]_vars

(***************************************************************************)
(* Properties of the auto-read.                                            *)
(***************************************************************************)
\* C35: the backoff exponent stays in 0..5 and the failure counter is never
\* negative; an after_cb of a run without errors resets both and schedules
\* the next run after the base interval; an after_cb of a failing run adds
\* one to the failure counter and schedules the next run after the base
\* interval below 3 failures in a row, and from the third on after 2^backoff
\* times the base interval with the backoff one higher, at most 5, so after
\* at most 32 times the base interval.
C35_BackoffStateMachine ==
    /\ [](auto_read_backoff \in 0..5 /\ auto_read_failures >= 0 /\ next_interval <= 32)
    /\ [][njobs' # njobs =>
            /\ pending' = pending \cup {auto_read_job'}
            /\ auto_read_job' \notin pending
            /\ IF ~Head(cbs)
                 THEN /\ auto_read_failures' = 0
                      /\ auto_read_backoff' = 0
                      /\ next_interval' = 1
                 ELSE /\ auto_read_failures' = auto_read_failures + 1
                      /\ IF auto_read_failures' < 3
                           THEN next_interval' = 1 /\ auto_read_backoff' = auto_read_backoff
                           ELSE /\ auto_read_backoff' =
                                      (IF auto_read_backoff < 5 THEN auto_read_backoff + 1 ELSE 5)
                                /\ next_interval' = 2 ^ auto_read_backoff']_vars

\* C35 witness: the eighth failing run in a row has been rescheduled with
\* the backoff at its cap, 32 times the base interval.
C35_Witness ==
    /\ auto_read_failures = 8
    /\ auto_read_backoff = 5
    /\ next_interval = 32
    /\ auto_read_job \in pending

\* C36: once the button shows Off, no auto-read run is started and no
\* next run is scheduled for as long as it shows Off, whatever run was in
\* flight or whatever after_cb was waiting when auto-read was toggled off.
C36_StopIsEffective ==
    [][(autoread_btn = "Off" /\ autoread_btn' = "Off") =>
            /\ running' <= running
            /\ pending' \subseteq pending]_vars

\* C37: there is never more than one run of run_once_and_schedule in flight
\* or scheduled, and the button shows On exactly when there is one.
C37_OneChain ==
    /\ Chains <= 1
    /\ (autoread_btn = "On") <=> (Chains >= 1)

(***************************************************************************)
(* Properties of the decoders.                                             *)
(***************************************************************************)
\* C38: for every CRC-valid 0x03 response, whatever its byteCount, the
\* value read_param displays equals the first value read_status returns
\* for the same response bytes.
C38_DecodersAgree ==
    (shown # -1 /\ rres[1] = "Ok") => shown = vals[1][1]

(***************************************************************************)
(* Properties of _read_exact.                                              *)
(***************************************************************************)
\* bytes the running _read_exact of thread t still has to get
Missing(t) == need[t] - Len(rx[t])

\* C39: every step of _read_exact(n) on the open line takes from the input
\* buffer at most the bytes still missing of its n and leaves what follows
\* them in the buffer; when the missing bytes are all there it returns with
\* exactly n bytes; it returns with fewer than n bytes only when a read has
\* yielded nothing more than 1 second after its start.
C39_ReadExactBounded ==
    [][\A t \in Threads :
          (/\ pc[t] \in {"hdr", "body"}
           /\ (pc'[t] # pc[t] \/ rx'[t] # rx[t])
           /\ ~(pc'[t] = "idle" /\ result'[t] = "PortError")) =>
              LET took == Len(inbuf) - Len(inbuf')
              IN  /\ took >= 0
                  /\ took <= Missing(t)
                  /\ inbuf' = SubSeq(inbuf, took + 1, Len(inbuf))
                  /\ (pc'[t] = pc[t]) =>
                        /\ rx'[t] = rx[t] \o SubSeq(inbuf, 1, took)
                        /\ took < Missing(t)
                  /\ (Len(inbuf) >= Missing(t)) =>
                        (took = Missing(t) /\ pc'[t] # pc[t])
                  /\ (pc'[t] # pc[t] /\ took < Missing(t)) =>
                        /\ inbuf = <<>>
                        /\ timer[t] * TickMs > 1000
                        /\ result'[t] \in {"Incomplete", "CrcMismatch", "Ok"}]_vars

\* C39 witness: _read_exact(2) has returned the two bytes of the header and
\* bytes that came after them are still in the input buffer.
C39_Witness ==
    \E t \in Threads :
        /\ pc[t] = "body"
        /\ Len(rx[t]) = 3
        /\ Len(inbuf) > Missing(t)

====
